---- MODULE Spec2Model ----
(***************************************************************************)
(* Dispute adjudication state-transition function of jam_protocol.        *)
(* The strict variant is src/main_script.py (process_disputes and its     *)
(* validators).  A pre-state {psi, rho, tau, kappa, lambda} and a dispute *)
(* batch {verdicts, culprits, faults} are mapped to a result and a        *)
(* post-state; the post-state of one call is the pre-state of the next.   *)
(* The lenient variant is src/run_dispute_case.py.                        *)
(*                                                                         *)
(* Python lists are sequences.  Hashes and keys are small integers whose  *)
(* order stands for the byte order of the hex strings.  An availability   *)
(* slot is 0 (None) or the package hash of its pending report.            *)
(***************************************************************************)
EXTENDS Integers, Sequences, FiniteSets, TLC

\* marked is a history variable: the keys that the calls before the current
\* one returned in offenders_mark.
VARIABLES pre_state, input_data, file_path, output, post_state, pc, marked

vars == <<pre_state, input_data, file_path, output, post_state, pc, marked>>

(***************************************************************************)
(* Bounds of the model.                                                    *)
(***************************************************************************)
NumReports == 2
NumValidators == 6
MaxKey == 2
MaxCulprits == 2
MaxFaults == 1

\* A verdict carries at most one vote per validator.
MaxVotes == NumValidators

\* `len(verdict_culprits) < 2` and `len(verdict_faults) < 1`
MinCulprits == 2
MinFaults == 1

Reports == 1..NumReports
None == 0

(***************************************************************************)
(* Generic list helpers: Python's sorted(), set(), `in`, list comprehension*)
(***************************************************************************)
Range(s) == {s[i] : i \in 1..Len(s)}

In(x, s) == \E i \in 1..Len(s) : s[i] = x

Min(S) == CHOOSE x \in S : \A y \in S : x <= y

RECURSIVE SortedOfSet(_)
SortedOfSet(S) ==
    IF S = {} THEN <<>>
    ELSE LET m == Min(S) IN <<m>> \o SortedOfSet(S \ {m})

\* A faulty normalisation: the list is stored as it was built.
SortedSet_AsBuilt(xs) == xs

\* sorted(set(xs))
SortedSet(xs) == SortedOfSet(Range(xs))

\* xs == sorted(xs)
IsSorted(xs) == \A i \in 1..(Len(xs) - 1) : xs[i] <= xs[i + 1]

\* len(xs) == len(set(xs))
IsUnique(xs) == Len(xs) = Cardinality(Range(xs))

\* A faulty ordering check: duplicates are not rejected.
SortedUnique_NoDupCheck(xs) == IsSorted(xs)

\* the negation of `xs != sorted(xs) or len(xs) != len(set(xs))`
SortedUnique(xs) == IsSorted(xs) /\ IsUnique(xs)

(***************************************************************************)
(* File paths.  The code only tests whether the path contains one of two  *)
(* fixture names, so three representative paths cover its behaviour.      *)
(***************************************************************************)
PlainPath == "tiny/progress_with_verdicts-1.json"
BadSignaturesPath == "tiny/progress_with_bad_signatures-1.json"
AvailAssignmentsPath == "tiny/progress_invalidates_avail_assignments-1.json"

FilePaths == {PlainPath, BadSignaturesPath, AvailAssignmentsPath}

\* "progress_with_bad_signatures" in file_path
HasBadSignatures(fp) == fp = BadSignaturesPath

\* "progress_invalidates_avail_assignments-1.json" in file_path
HasAvailAssignments(fp) == fp = AvailAssignmentsPath

(***************************************************************************)
(* verify_signature: the mock ignores signature, key and message.         *)
(***************************************************************************)
verify_signature(key, message, fp) ==
    IF HasBadSignatures(fp) THEN FALSE ELSE TRUE

\* {entry["ed25519"] for entry in kappa + lambda_}
valid_keys(kappa, lambda) == Range(kappa \o lambda)

\* kappa[index] with Python's list indexing: 0-based, a negative index counts
\* from the end, anything else raises IndexError (here the value None).
KappaAt(kappa, index) ==
    IF index >= 0 /\ index < Len(kappa) THEN kappa[index + 1]
    ELSE IF index < 0 /\ index >= -Len(kappa) THEN kappa[Len(kappa) + index + 1]
    ELSE None

NoError == "none"

(***************************************************************************)
(* validate_votes: the first error of the vote list, or NoError.          *)
(***************************************************************************)
RECURSIVE CheckVotes(_, _, _, _)
CheckVotes(votes, kappa, lambda, fp) ==
    IF votes = <<>> THEN NoError
    ELSE LET vote == Head(votes) IN
         IF vote.index >= Len(kappa) THEN "invalid_vote_index"
         ELSE IF vote.index < -Len(kappa) THEN "IndexError"
         ELSE IF KappaAt(kappa, vote.index) \notin valid_keys(kappa, lambda)
              THEN "bad_guarantor_key"
         ELSE IF ~verify_signature(KappaAt(kappa, vote.index), <<vote.vote, vote.index>>, fp)
              THEN "bad_signature"
         ELSE CheckVotes(Tail(votes), kappa, lambda, fp)

\* A faulty vote validation: the order of the indices is checked before the age.
validate_votes_OrderFirst(votes, kappa, lambda, age, tau, fp) ==
    IF ~SortedUnique([i \in 1..Len(votes) |-> votes[i].index])
    THEN "judgements_not_sorted_unique"
    ELSE IF age # tau THEN "bad_judgement_age"
    ELSE CheckVotes(votes, kappa, lambda, fp)

validate_votes(votes, kappa, lambda, age, tau, fp) ==
    IF age # tau THEN "bad_judgement_age"
    ELSE IF ~SortedUnique([i \in 1..Len(votes) |-> votes[i].index])
         THEN "judgements_not_sorted_unique"
    ELSE CheckVotes(votes, kappa, lambda, fp)

(***************************************************************************)
(* validate_culprits                                                       *)
(***************************************************************************)
RECURSIVE CheckCulprits(_, _, _, _, _, _)
CheckCulprits(culprits, kappa, lambda, psi, verdict_targets, fp) ==
    IF culprits = <<>> THEN NoError
    ELSE LET culprit == Head(culprits) IN
         IF In(culprit.key, psi.offenders) THEN "offender_already_reported"
         ELSE IF ~In(culprit.target, verdict_targets) THEN "culprits_verdict_not_bad"
         ELSE IF culprit.key \notin valid_keys(kappa, lambda) THEN "bad_guarantor_key"
         ELSE IF ~verify_signature(culprit.key, culprit.target, fp) THEN "bad_signature"
         ELSE CheckCulprits(Tail(culprits), kappa, lambda, psi, verdict_targets, fp)

\* A faulty culprit validation: the offenders of the state are not consulted.
validate_culprits_ForgetOffenders(culprits, kappa, lambda, psi, verdict_targets, fp) ==
    IF ~SortedUnique([i \in 1..Len(culprits) |-> culprits[i].key])
    THEN "culprits_not_sorted_unique"
    ELSE CheckCulprits(culprits, kappa, lambda, [psi EXCEPT !.offenders = <<>>],
                       verdict_targets, fp)

\* A faulty culprit validation: only the order of the keys is checked.
validate_culprits_SortOnly(culprits, kappa, lambda, psi, verdict_targets, fp) ==
    IF ~SortedUnique([i \in 1..Len(culprits) |-> culprits[i].key])
    THEN "culprits_not_sorted_unique"
    ELSE NoError

validate_culprits(culprits, kappa, lambda, psi, verdict_targets, fp) ==
    IF ~SortedUnique([i \in 1..Len(culprits) |-> culprits[i].key])
    THEN "culprits_not_sorted_unique"
    ELSE CheckCulprits(culprits, kappa, lambda, psi, verdict_targets, fp)

(***************************************************************************)
(* validate_faults: two passes over the list.                              *)
(***************************************************************************)
RECURSIVE CheckFaultsFirst(_, _, _)
CheckFaultsFirst(faults, psi, verdict_targets) ==
    IF faults = <<>> THEN NoError
    ELSE LET fault == Head(faults) IN
         IF In(fault.key, psi.offenders) THEN "offender_already_reported"
         ELSE IF fault.vote # FALSE THEN "fault_verdict_wrong"
         ELSE IF ~In(fault.target, verdict_targets) THEN "fault_verdict_not_good"
         ELSE CheckFaultsFirst(Tail(faults), psi, verdict_targets)

RECURSIVE CheckFaultsSecond(_, _, _, _)
CheckFaultsSecond(faults, kappa, lambda, fp) ==
    IF faults = <<>> THEN NoError
    ELSE LET fault == Head(faults) IN
         IF fault.key \notin valid_keys(kappa, lambda) THEN "bad_auditor_key"
         ELSE IF ~verify_signature(fault.key, fault.target, fp) THEN "bad_signature"
         ELSE CheckFaultsSecond(Tail(faults), kappa, lambda, fp)

\* A faulty fault validation: only the order of the keys is checked.
validate_faults_SortOnly(faults, kappa, lambda, psi, verdict_targets, fp) ==
    IF ~SortedUnique([i \in 1..Len(faults) |-> faults[i].key])
    THEN "faults_not_sorted_unique"
    ELSE NoError

validate_faults(faults, kappa, lambda, psi, verdict_targets, fp) ==
    IF ~SortedUnique([i \in 1..Len(faults) |-> faults[i].key])
    THEN "faults_not_sorted_unique"
    ELSE LET first == CheckFaultsFirst(faults, psi, verdict_targets) IN
         IF first # NoError THEN first
         ELSE CheckFaultsSecond(faults, kappa, lambda, fp)

(***************************************************************************)
(* process_disputes (strict variant)                                       *)
(***************************************************************************)
Ok(offenders_mark) == [kind |-> "ok", offenders_mark |-> offenders_mark, err |-> NoError]

Err(code) == [kind |-> "err", offenders_mark |-> <<>>, err |-> code]

\* A faulty empty-batch return: a fresh psi instead of a copy of the pre-state's.
EmptyReturn_Fresh(pre) ==
    [output |-> Ok(<<>>),
     post_state |-> [pre EXCEPT !.psi = [good |-> <<>>, bad |-> <<>>,
                                         wonky |-> <<>>, offenders |-> <<>>]]]

\* Lines 95-96: post_state = deepcopy(pre_state); return ok with no offenders.
EmptyReturn(pre) == [output |-> Ok(<<>>), post_state |-> pre]

\* A faulty error return: the working copies of psi and rho leak into the result.
ErrorReturn_WorkingCopy(code, pre, work) ==
    [output |-> Err(code), post_state |-> [pre EXCEPT !.psi = work.psi, !.rho = work.rho]]

\* return {"err": error}, deepcopy(pre_state)
ErrorReturn(code, pre, work) == [output |-> Err(code), post_state |-> pre]

\* A faulty membership check: the wonky set is not consulted.
AlreadyJudged_NotWonky(target, psi) == In(target, psi.good) \/ In(target, psi.bad)

\* A faulty membership check: only the good set is consulted.
AlreadyJudged_GoodOnly(target, psi) == In(target, psi.good)

\* A faulty membership check: no set is consulted.
AlreadyJudged_Never(target, psi) == FALSE

\* target in psi['good'] or target in psi['bad'] or target in psi['wonky']
AlreadyJudged(target, psi) ==
    In(target, psi.good) \/ In(target, psi.bad) \/ In(target, psi.wonky)

\* A faulty threshold: two thirds rounded up.
two_thirds_Ceiling(total) == ((2 * total) + 2) \div 3

\* A faulty threshold: two thirds without the extra vote.
two_thirds_NoPlusOne(total) == (2 * total) \div 3

two_thirds(total) == ((2 * total) \div 3) + 1

\* A faulty threshold: the third is rounded to the nearest integer.
one_third_Rounded(total) == (total + 1) \div 3

one_third(total) == total \div 3

\* sum(1 for v in votes if v['vote'])
Positive(votes) == Len(SelectSeq(votes, LAMBDA v : v.vote))

\* [c for c in culprits if c["target"] == target], also used for faults
Targeting(accusations, target) == SelectSeq(accusations, LAMBDA a : a.target = target)

\* A faulty key collection: only the first accusation contributes its key.
KnownKeys_First(accusations, kappa, lambda) ==
    IF accusations = <<>> THEN <<>> ELSE <<Head(accusations).key>>

\* f['key'] for f in xs if f['key'] in [entry['ed25519'] for entry in kappa + lambda_]
KnownKeys(accusations, kappa, lambda) ==
    LET known == SelectSeq(accusations, LAMBDA a : In(a.key, kappa \o lambda))
    IN [i \in 1..Len(known) |-> known[i].key]

\* The `if judged:` block: clearing of availability slots.
ClearSlots(rho, target, verdict_idx, fp) ==
    IF HasAvailAssignments(fp) /\ verdict_idx = 0
    THEN [rho EXCEPT ![1] = None]
    ELSE [i \in 1..Len(rho) |-> IF rho[i] # None /\ rho[i] = target THEN None ELSE rho[i]]

\* Lines 121-160: classification of one verdict whose votes are valid.
\* work = [psi, rho, culprit_keys, fault_keys]; the result adds the error, if any.
Classify(verdict, verdict_idx, work, culprits, faults, kappa, lambda, fp) ==
    LET target == verdict.target
        positive == Positive(verdict.votes)
        total == Len(verdict.votes)
        verdict_culprits == Targeting(culprits, target)
        verdict_faults == Targeting(faults, target)
        cleared == ClearSlots(work.rho, target, verdict_idx, fp)
    IN  IF positive >= two_thirds(total) THEN
            IF Len(verdict_faults) < 1 THEN [err |-> "not_enough_faults", work |-> work]
            ELSE IF Len(verdict_culprits) > 0
                 THEN [err |-> "culprits_verdict_not_bad", work |-> work]
            ELSE [err |-> NoError,
                  work |-> [work EXCEPT !.psi.good = Append(@, target),
                                        !.fault_keys = @ \o KnownKeys(verdict_faults, kappa, lambda),
                                        !.rho = cleared]]
        ELSE IF positive = 0 THEN
            IF Len(verdict_culprits) < 2 THEN [err |-> "not_enough_culprits", work |-> work]
            ELSE IF Len(verdict_faults) > 0
                 THEN [err |-> "faults_verdict_not_good", work |-> work]
            ELSE [err |-> NoError,
                  work |-> [work EXCEPT !.psi.bad = Append(@, target),
                                        !.culprit_keys = @ \o KnownKeys(verdict_culprits, kappa, lambda),
                                        !.rho = cleared]]
        ELSE IF one_third(total) <= positive /\ positive < two_thirds(total) THEN
            IF positive = one_third(total) THEN [err |-> "bad_vote_split", work |-> work]
            ELSE IF Len(verdict_culprits) > 0 \/ Len(verdict_faults) > 0
                 THEN [err |-> "culprits_verdict_not_bad", work |-> work]
            ELSE [err |-> NoError,
                  work |-> [work EXCEPT !.psi.wonky = Append(@, target),
                                        !.rho = cleared]]
        ELSE [err |-> NoError, work |-> work]

\* The body of `for verdict_idx, verdict in enumerate(verdicts)` from verdict_idx on.
RECURSIVE ProcessVerdicts(_, _, _, _, _, _, _)
ProcessVerdicts(verdicts, verdict_idx, work, culprits, faults, pre, fp) ==
    IF verdict_idx >= Len(verdicts) THEN [err |-> NoError, work |-> work]
    ELSE LET verdict == verdicts[verdict_idx + 1] IN
         IF AlreadyJudged(verdict.target, work.psi)
         THEN [err |-> "already_judged", work |-> work]
         ELSE LET error == validate_votes(verdict.votes, pre.kappa, pre.lambda,
                                          verdict.age, pre.tau, fp) IN
              IF error # NoError THEN [err |-> error, work |-> work]
              ELSE LET step == Classify(verdict, verdict_idx, work, culprits, faults,
                                        pre.kappa, pre.lambda, fp) IN
                   IF step.err # NoError THEN step
                   ELSE ProcessVerdicts(verdicts, verdict_idx + 1, step.work,
                                        culprits, faults, pre, fp)

\* A faulty success return: the prior offenders are dropped from psi.
Finalize_MarkOnly(work, pre) ==
    LET offenders_mark == work.culprit_keys \o work.fault_keys IN
    [output |-> Ok(offenders_mark),
     post_state |-> [psi |-> [good |-> SortedSet(work.psi.good),
                              bad |-> SortedSet(work.psi.bad),
                              wonky |-> SortedSet(work.psi.wonky),
                              offenders |-> SortedSet(offenders_mark)],
                     rho |-> work.rho,
                     tau |-> pre.tau,
                     kappa |-> pre.kappa,
                     lambda |-> pre.lambda]]

\* A faulty success return: the previous validator set is returned as kappa.
Finalize_KappaRotated(work, pre) ==
    LET offenders_mark == work.culprit_keys \o work.fault_keys IN
    [output |-> Ok(offenders_mark),
     post_state |-> [psi |-> [good |-> SortedSet(work.psi.good),
                              bad |-> SortedSet(work.psi.bad),
                              wonky |-> SortedSet(work.psi.wonky),
                              offenders |-> SortedSet(work.psi.offenders \o offenders_mark)],
                     rho |-> work.rho,
                     tau |-> pre.tau,
                     kappa |-> pre.lambda,
                     lambda |-> pre.lambda]]

\* A faulty success return: the fault keys are left out of offenders_mark.
Finalize_CulpritsOnly(work, pre) ==
    LET offenders_mark == work.culprit_keys IN
    [output |-> Ok(offenders_mark),
     post_state |-> [psi |-> [good |-> SortedSet(work.psi.good),
                              bad |-> SortedSet(work.psi.bad),
                              wonky |-> SortedSet(work.psi.wonky),
                              offenders |-> SortedSet(work.psi.offenders \o offenders_mark)],
                     rho |-> work.rho,
                     tau |-> pre.tau,
                     kappa |-> pre.kappa,
                     lambda |-> pre.lambda]]

\* A faulty success return: the wonky set of the working copy is not stored.
Finalize_WonkyDropped(work, pre) ==
    LET offenders_mark == work.culprit_keys \o work.fault_keys IN
    [output |-> Ok(offenders_mark),
     post_state |-> [psi |-> [good |-> SortedSet(work.psi.good),
                              bad |-> SortedSet(work.psi.bad),
                              wonky |-> SortedSet(pre.psi.wonky),
                              offenders |-> SortedSet(work.psi.offenders \o offenders_mark)],
                     rho |-> work.rho,
                     tau |-> pre.tau,
                     kappa |-> pre.kappa,
                     lambda |-> pre.lambda]]

\* Lines 162-177: the success return.
Finalize(work, pre) ==
    LET offenders_mark == work.culprit_keys \o work.fault_keys IN
    [output |-> Ok(offenders_mark),
     post_state |-> [psi |-> [good |-> SortedSet(work.psi.good),
                              bad |-> SortedSet(work.psi.bad),
                              wonky |-> SortedSet(work.psi.wonky),
                              offenders |-> SortedSet(work.psi.offenders \o offenders_mark)],
                     rho |-> work.rho,
                     tau |-> pre.tau,
                     kappa |-> pre.kappa,
                     lambda |-> pre.lambda]]

process_disputes(input, pre, fp) ==
    LET verdicts == input.verdicts
        culprits == input.culprits
        faults == input.faults
        work0 == [psi |-> pre.psi, rho |-> pre.rho, culprit_keys |-> <<>>, fault_keys |-> <<>>]
        verdict_targets == [i \in 1..Len(verdicts) |-> verdicts[i].target]
    IN  IF verdicts = <<>> /\ culprits = <<>> /\ faults = <<>>
        THEN EmptyReturn(pre)
        ELSE IF ~SortedUnique(verdict_targets)
        THEN ErrorReturn("verdicts_not_sorted_unique", pre, work0)
        ELSE LET cerr == validate_culprits(culprits, pre.kappa, pre.lambda, pre.psi,
                                           verdict_targets, fp) IN
        IF cerr # NoError THEN ErrorReturn(cerr, pre, work0)
        ELSE LET ferr == validate_faults(faults, pre.kappa, pre.lambda, pre.psi,
                                         verdict_targets, fp) IN
        IF ferr # NoError THEN ErrorReturn(ferr, pre, work0)
        ELSE LET loop == ProcessVerdicts(verdicts, 0, work0, culprits, faults, pre, fp) IN
        IF loop.err # NoError THEN ErrorReturn(loop.err, pre, loop.work)
        ELSE Finalize(loop.work, pre)

(***************************************************************************)
(* src/run_dispute_case.py: the variant of process_disputes that validates *)
(* nothing and returns no error.                                           *)
(***************************************************************************)
\* A faulty band test: wonky strictly between the two thresholds.
lenient_band_Between(positive, total) ==
    IF positive >= ((2 * total) \div 3) + 1 THEN "good"
    ELSE IF positive = 0 THEN "bad"
    ELSE IF positive > total \div 3 THEN "wonky"
    ELSE "none"

\* two_thirds = (2 * total) // 3 + 1; one_third = total // 3; the if/elif chain
lenient_band(positive, total) ==
    IF positive >= ((2 * total) \div 3) + 1 THEN "good"
    ELSE IF positive = 0 THEN "bad"
    ELSE IF positive = total \div 3 THEN "wonky"
    ELSE "none"

\* `if judged:` rho[0] = None, then every slot whose hash equals the target
lenient_clear(rho, target) ==
    [i \in 1..Len(rho) |->
        IF i = 1 \/ (rho[i] # None /\ rho[i] = target) THEN None ELSE rho[i]]

\* `for verdict in verdicts`; work = [psi, rho]
RECURSIVE lenient_verdicts(_, _)
lenient_verdicts(verdicts, work) ==
    IF verdicts = <<>> THEN work
    ELSE LET verdict == Head(verdicts)
             target == verdict.target
             band == lenient_band(Positive(verdict.votes), Len(verdict.votes))
         IN  IF \/ In(target, work.psi.good) \/ In(target, work.psi.bad)
                \/ In(target, work.psi.wonky)
             THEN lenient_verdicts(Tail(verdicts), work)
             ELSE IF band = "none" THEN lenient_verdicts(Tail(verdicts), work)
             ELSE lenient_verdicts(Tail(verdicts),
                      [psi |-> [work.psi EXCEPT ![band] = Append(@, target)],
                       rho |-> lenient_clear(work.rho, target)])

\* `for culprit in culprits` and `for fault in faults`;
\* marks = [offenders, offenders_mark]
RECURSIVE lenient_marks(_, _)
lenient_marks(accusations, marks) ==
    IF accusations = <<>> THEN marks
    ELSE LET key == Head(accusations).key IN
         IF In(key, marks.offenders) THEN lenient_marks(Tail(accusations), marks)
         ELSE lenient_marks(Tail(accusations),
                  [offenders |-> Append(marks.offenders, key),
                   offenders_mark |-> Append(marks.offenders_mark, key)])

lenient_process_disputes(input, pre) ==
    LET loop == lenient_verdicts(input.verdicts, [psi |-> pre.psi, rho |-> pre.rho])
        marks == lenient_marks(input.faults,
                     lenient_marks(input.culprits,
                         [offenders |-> loop.psi.offenders, offenders_mark |-> <<>>]))
    IN  [output |-> Ok(SortedSet(marks.offenders_mark)),
         post_state |-> [psi |-> [good |-> SortedSet(loop.psi.good),
                                  bad |-> SortedSet(loop.psi.bad),
                                  wonky |-> SortedSet(loop.psi.wonky),
                                  offenders |-> SortedSet(marks.offenders)],
                         rho |-> loop.rho,
                         tau |-> pre.tau,
                         kappa |-> pre.kappa,
                         lambda |-> pre.lambda]]

(***************************************************************************)
(* Pre-states and dispute batches.                                         *)
(***************************************************************************)
TauInit == 1

\* kappa and lambda overlap: validator i holds key i now, key i + 1 before.
KappaInit == [i \in 1..NumValidators |-> i]

LambdaInit == [i \in 1..NumValidators |-> i + 1]

\* Every report is pending on some core, report 1 on two of them.
NumCores == NumReports + 1

RhoInit == [i \in 1..NumCores |-> ((i - 1) % NumReports) + 1]

InitState ==
    [psi |-> [good |-> <<>>, bad |-> <<>>, wonky |-> <<>>, offenders |-> <<>>],
     rho |-> RhoInit,
     tau |-> TauInit,
     kappa |-> KappaInit,
     lambda |-> LambdaInit]

\* Key 0 belongs to no validator set.
AccusedKeys == 0..MaxKey

Ages == {TauInit - 1, TauInit}

\* n votes with indices first, first + step, ...; the first p vote TRUE.
Votes(n, p, first, step) ==
    [i \in 1..n |-> [index |-> first + step * (i - 1), vote |-> i <= p]]

Verdict(target, age, votes) == [target |-> target, age |-> age, votes |-> votes]

Culprit(key, target) == [key |-> key, target |-> target]

Fault(key, target, vote) == [key |-> key, target |-> target, vote |-> vote]

Batch(verdicts, culprits, faults) ==
    [verdicts |-> verdicts, culprits |-> culprits, faults |-> faults]

\* Sequences over S of length at most n.
SeqsUpTo(S, n) == UNION {[1..k -> S] : k \in 0..n}

RECURSIVE Concat(_)
Concat(ss) == IF ss = <<>> THEN <<>> ELSE Head(ss) \o Concat(Tail(ss))

Reverse(s) == [i \in 1..Len(s) |-> s[Len(s) + 1 - i]]

\* <<total, positive>> of a vote list.
Splits == {np \in (0..MaxVotes) \X (0..MaxVotes) : np[2] <= np[1]}

\* The first and the last report: the targets of the single-verdict batches.
EndReports == {1, NumReports}

\* No validator's key, the first key and the last key.
EndKeys == {0, 1, MaxKey}

\* The shortest vote lists of the bad, good and wonky bands.
BandVotes ==
    [bad |-> Votes(1, 0, 0, 1), good |-> Votes(1, 1, 0, 1), wonky |-> Votes(2, 1, 0, 1)]

Bands == {"bad", "good", "wonky"}

\* One verdict with any vote count and split; c culprits (keys 1..c) and
\* f faults (keys c+1..c+f) target it.
JudgementBatches ==
    {Batch(<<Verdict(t, TauInit, Votes(np[1], np[2], 0, 1))>>,
           [i \in 1..c |-> Culprit(i, t)],
           [i \in 1..f |-> Fault(c + i, t, FALSE)]) :
        t \in EndReports, np \in Splits, c \in {0, 1, MaxCulprits}, f \in {0, MaxFaults}}

\* One two-vote verdict whose age or vote indices may be off.
VoteDefectBatches ==
    {Batch(<<Verdict(t, age, Votes(2, 1, first, step))>>, <<>>, <<>>) :
        t \in Reports, age \in Ages,
        first \in {-1, 0, NumValidators - 1}, step \in {-1, 0, 1}}

\* A bad-band verdict with arbitrary culprits, a good-band verdict with an
\* arbitrary fault, or a fault without any verdict.
AccusationBatches ==
    {Batch(<<Verdict(t, TauInit, BandVotes.bad)>>, cs, <<>>) :
        t \in EndReports,
        cs \in SeqsUpTo({Culprit(k, r) : k \in AccusedKeys, r \in EndReports}, MinCulprits)}
    \cup
    {Batch(<<Verdict(t, TauInit, BandVotes.good)>>, <<>>, fs) :
        t \in EndReports,
        fs \in SeqsUpTo({Fault(k, r, v) : k \in AccusedKeys, r \in EndReports, v \in BOOLEAN},
                        MinFaults)}
    \cup
    {Batch(<<>>, <<>>, <<Fault(k, r, FALSE)>>) : k \in AccusedKeys, r \in Reports}

\* One good-band verdict with two faults of arbitrary keys targeting it.
FaultPairBatches ==
    {Batch(<<Verdict(t, TauInit, BandVotes.good)>>, <<>>,
           <<Fault(k1, t, FALSE), Fault(k2, t, FALSE)>>) :
        t \in Reports, k1 \in AccusedKeys, k2 \in AccusedKeys}

\* A verdict per planned report, in ascending target order.
PlannedVerdicts(plan) ==
    Concat([r \in Reports |->
        IF plan[r] = "absent" THEN <<>>
        ELSE <<Verdict(r, TauInit, BandVotes[plan[r]])>>])

\* The reports of a band in the order in which keys are handed out.
RECURSIVE PlannedIn(_, _, _)
PlannedIn(plan, band, order) ==
    IF order = <<>> THEN <<>>
    ELSE (IF plan[Head(order)] = band THEN <<Head(order)>> ELSE <<>>)
         \o PlannedIn(plan, band, Tail(order))

\* Culprits for every verdict planned bad: MinCulprits consecutive keys each,
\* starting at key a, listed by ascending key.
PlannedCulprits(plan, a, order) ==
    LET bads == PlannedIn(plan, "bad", order) IN
    [i \in 1..(MinCulprits * Len(bads)) |->
        Culprit(a + i - 1, bads[((i - 1) \div MinCulprits) + 1])]

\* Faults for every verdict planned good: MinFaults consecutive keys each.
PlannedFaults(plan, b, order) ==
    LET goods == PlannedIn(plan, "good", order) IN
    [i \in 1..(MinFaults * Len(goods)) |->
        Fault(b + i - 1, goods[((i - 1) \div MinFaults) + 1], FALSE)]

TargetOrder == [i \in 1..NumReports |-> i]

KeyOrders == {TargetOrder, Reverse(TargetOrder)}

\* Several verdicts, one per planned report, each with the accusations its
\* band requires; culprit keys start at a, fault keys at b, and keys are
\* handed out along or against the target order.
PlannedBatch(plan, a, b, order) ==
    Batch(PlannedVerdicts(plan), PlannedCulprits(plan, a, order),
          PlannedFaults(plan, b, order))

Plans == [Reports -> Bands \cup {"absent"}]

PlannedBatches ==
    {PlannedBatch(plan, a, b, order) :
        plan \in Plans, a \in EndKeys, b \in EndKeys, order \in KeyOrders}

\* The same verdicts without any accusation.
BareBatches == {Batch(PlannedVerdicts(plan), <<>>, <<>>) : plan \in Plans}

\* Verdict lists out of order: reversed, or with the first verdict repeated.
Reversed(b) == [b EXCEPT !.verdicts = Reverse(@)]

Repeated(b) == [b EXCEPT !.verdicts = IF @ = <<>> THEN @ ELSE <<Head(@)>> \o @]

DisorderedBatches ==
    LET from == {PlannedBatch(plan, a, a, TargetOrder) : plan \in Plans, a \in EndKeys}
                \cup BareBatches
    IN  {Reversed(b) : b \in from} \cup {Repeated(b) : b \in from}

\* Culprits without any verdict.
CulpritOnlyBatches ==
    {Batch(<<>>, cs, <<>>) :
        cs \in SeqsUpTo({Culprit(k, 1) : k \in AccusedKeys}, MinCulprits) \ {<<>>}}

\* A bad-band verdict for report 1, one arbitrary culprit and two faults whose
\* keys may be out of order.
MixedBatches ==
    {Batch(<<Verdict(1, TauInit, BandVotes.bad)>>, <<Culprit(k, r)>>,
           <<Fault(k1, 1, FALSE), Fault(k2, 1, FALSE)>>) :
        k \in AccusedKeys, r \in Reports, k1 \in {1, MaxKey}, k2 \in {1, MaxKey}}

\* A good-band verdict for report 1 and two faults: the first targets the
\* verdict and votes false, the second is arbitrary.
FaultOrderBatches ==
    {Batch(<<Verdict(1, TauInit, BandVotes.good)>>, <<>>,
           <<Fault(k1, 1, FALSE), Fault(k2, r, v)>>) :
        k1 \in {0, 1}, k2 \in AccusedKeys, r \in Reports, v \in BOOLEAN}

\* Two verdicts without accusations: the first is in the wonky or in the bad
\* band, the second has two votes whose age or indices may be off.
SecondVerdictDefectBatches ==
    {Batch(<<Verdict(1, TauInit, BandVotes[band]),
             Verdict(2, age, Votes(2, 1, first, step))>>, <<>>, <<>>) :
        band \in {"wonky", "bad"}, age \in Ages,
        first \in {-1, 0, NumValidators - 1}, step \in {-1, 0, 1}}

\* Every batch is tried with the plain path; the short single-verdict batches
\* and the batches with one culprit and two faults also with the path whose
\* signatures fail, and those without accusations also with the path of the
\* availability fixture.
AllBatches ==
    JudgementBatches \cup VoteDefectBatches \cup AccusationBatches \cup FaultPairBatches
    \cup PlannedBatches \cup BareBatches \cup DisorderedBatches
    \cup CulpritOnlyBatches \cup MixedBatches \cup FaultOrderBatches
    \cup SecondVerdictDefectBatches

FixtureBatches ==
    VoteDefectBatches \cup {b \in JudgementBatches : Len(b.verdicts[1].votes) <= 2}
    \cup MixedBatches

Calls ==
    (AllBatches \X {PlainPath})
    \cup (FixtureBatches \X {BadSignaturesPath})
    \cup (VoteDefectBatches \X {AvailAssignmentsPath})

NoInput == Batch(<<>>, <<>>, <<>>)

NoOutput == [kind |-> "none", offenders_mark |-> <<>>, err |-> NoError]

(***************************************************************************)
(* The state machine: a driver calls process_disputes on the current      *)
(* state, then carries the returned state into the next call.             *)
(***************************************************************************)
Init ==
    /\ pre_state = InitState
    /\ input_data = NoInput
    /\ file_path = PlainPath
    /\ output = NoOutput
    /\ post_state = pre_state
    /\ pc = "ready"
    /\ marked = {}

ProcessDisputes ==
    /\ pc = "ready"
    /\ \E call \in Calls :
          LET r == process_disputes(call[1], pre_state, call[2]) IN
          /\ input_data' = call[1]
          /\ file_path' = call[2]
          /\ output' = r.output
          /\ post_state' = r.post_state
    /\ pc' = "returned"
    /\ UNCHANGED <<pre_state, marked>>

ThreadState ==
    /\ pc = "returned"
    /\ pre_state' = post_state
    /\ input_data' = NoInput
    /\ file_path' = PlainPath
    /\ output' = NoOutput
    /\ pc' = "ready"
    /\ marked' = marked \cup Range(output.offenders_mark)
    /\ UNCHANGED post_state

Next == ProcessDisputes \/ ThreadState

Spec == Init /\ [][Next]_vars

(***************************************************************************)
(* Vocabulary of the properties.                                           *)
(***************************************************************************)
Returned == pc = "returned"

Succeeded == Returned /\ output.kind = "ok"

Failed == Returned /\ output.kind = "err"

StrictlyAscending(xs) == \A i \in 1..Len(xs), j \in 1..Len(xs) : i < j => xs[i] < xs[j]

Targets(batch) == [i \in 1..Len(batch.verdicts) |-> batch.verdicts[i].target]

Judged(psi) == Range(psi.good) \cup Range(psi.bad) \cup Range(psi.wonky)

JudgedByCall == Judged(post_state.psi) \ Judged(pre_state.psi)

PairwiseDisjoint(psi) ==
    /\ Range(psi.good) \cap Range(psi.bad) = {}
    /\ Range(psi.good) \cap Range(psi.wonky) = {}
    /\ Range(psi.bad) \cap Range(psi.wonky) = {}

\* The working copies as they stand when the verdict loop of the last call ends.
LoopOfCall ==
    ProcessVerdicts(input_data.verdicts, 0,
                    [psi |-> pre_state.psi, rho |-> pre_state.rho,
                     culprit_keys |-> <<>>, fault_keys |-> <<>>],
                    input_data.culprits, input_data.faults, pre_state, file_path)

(***************************************************************************)
(* C1  Atomicity: a call that returns an error returns the pre-state in   *)
(* every field, also when earlier verdicts of the batch were classified.  *)
(***************************************************************************)
\* C1: a failed call returns a state equal to its pre-state in every field.
C1_Atomicity == Failed => post_state = pre_state

\* The second verdict fails after the first was classified and its slots cleared.
C1_Witness ==
    /\ Failed
    /\ Len(input_data.verdicts) = 2
    /\ output.err \in {"already_judged", "not_enough_culprits", "not_enough_faults"}
    /\ LoopOfCall.work.psi # pre_state.psi
    /\ LoopOfCall.work.rho # pre_state.rho

(***************************************************************************)
(* C2  Empty batch: no verdicts, culprits or faults gives success with an *)
(* empty offenders_mark and a post-state equal to the pre-state.          *)
(***************************************************************************)
\* C2: the empty batch succeeds with no offenders and leaves the state as it was.
C2_EmptyBatchNoOp ==
    (Returned /\ input_data = Batch(<<>>, <<>>, <<>>))
        => (output = Ok(<<>>) /\ post_state = pre_state)

C2_Witness ==
    /\ Returned
    /\ input_data = Batch(<<>>, <<>>, <<>>)
    /\ pre_state.psi.bad # <<>>
    /\ pre_state.psi.offenders # <<>>
    /\ pre_state.rho # RhoInit

(***************************************************************************)
(* C3  Partition: good, bad and wonky are pairwise disjoint before and    *)
(* after every call of every sequence of calls.                           *)
(***************************************************************************)
\* C3: good, bad and wonky stay pairwise disjoint across calls.
C3_Partition ==
    /\ PairwiseDisjoint(pre_state.psi)
    /\ PairwiseDisjoint(post_state.psi)

C3_Witness ==
    /\ Succeeded
    /\ JudgedByCall # {}
    /\ Judged(pre_state.psi) # {}
    /\ Cardinality({f \in {"good", "bad", "wonky"} : post_state.psi[f] # <<>>}) >= 2

(***************************************************************************)
(* C4  Monotonicity: good, bad, wonky and offenders of the returned state *)
(* are supersets of those of the pre-state, on success and on failure.    *)
(***************************************************************************)
\* C4: no call removes an element from good, bad, wonky or offenders.
C4_Monotonic ==
    Returned =>
        \A f \in {"good", "bad", "wonky", "offenders"} :
            Range(pre_state.psi[f]) \subseteq Range(post_state.psi[f])

C4_Witness ==
    /\ Succeeded
    /\ pre_state.psi.offenders # <<>>
    /\ Range(post_state.psi.offenders) # Range(pre_state.psi.offenders)
    /\ Judged(pre_state.psi) # {}
    /\ JudgedByCall # {}

(***************************************************************************)
(* C5  Re-judgement.  As claimed: a call whose batch holds a verdict for  *)
(* a target judged by an earlier call returns already_judged and its      *)
(* pre-state.  What the code does: such a call always fails and returns   *)
(* its pre-state, and the error is already_judged when no earlier check   *)
(* of the call fails first.                                                *)
(***************************************************************************)
Rejudging == {i \in 1..Len(input_data.verdicts) :
                 input_data.verdicts[i].target \in Judged(pre_state.psi)}

HasRejudged == Returned /\ Rejudging # {}

\* The sortedness check and the accusation checks pass, and so does every
\* verdict that precedes the first one whose target is already judged.
ReachesRejudged ==
    /\ StrictlyAscending(Targets(input_data))
    /\ validate_culprits(input_data.culprits, pre_state.kappa, pre_state.lambda,
                         pre_state.psi, Targets(input_data), file_path) = NoError
    /\ validate_faults(input_data.faults, pre_state.kappa, pre_state.lambda,
                       pre_state.psi, Targets(input_data), file_path) = NoError
    /\ ProcessVerdicts(SubSeq(input_data.verdicts, 1, Min(Rejudging) - 1), 0,
                       [psi |-> pre_state.psi, rho |-> pre_state.rho,
                        culprit_keys |-> <<>>, fault_keys |-> <<>>],
                       input_data.culprits, input_data.faults,
                       pre_state, file_path).err = NoError

\* C5 as claimed: a verdict for an already judged target always gives already_judged.
C5_RejudgeAlwaysAlreadyJudged ==
    HasRejudged => (output = Err("already_judged") /\ post_state = pre_state)

\* C5 as amended: such a call fails with the state unchanged, and with
\* already_judged when no earlier check of the call fails.
C5_RejudgeRejected ==
    HasRejudged =>
        /\ Failed
        /\ post_state = pre_state
        /\ output.err = "already_judged" \/ ~ReachesRejudged

\* The second verdict of a batch is for a judged target; the first is classified.
C5_Witness ==
    /\ HasRejudged
    /\ Min(Rejudging) = 2
    /\ ReachesRejudged
    /\ output.err = "already_judged"

(***************************************************************************)
(* C6  On success offenders_mark is strictly ascending, hence without     *)
(* duplicates.                                                             *)
(***************************************************************************)
\* C6: offenders_mark of a successful call is strictly ascending.
C6_OffendersMarkAscending == Succeeded => StrictlyAscending(output.offenders_mark)

(***************************************************************************)
(* C7  After a successful call every verdict target of the batch is in    *)
(* exactly one of good, bad and wonky.                                     *)
(***************************************************************************)
\* C7: a successful call leaves every verdict target in exactly one set.
C7_EveryVerdictJudged ==
    Succeeded =>
        \A i \in 1..Len(input_data.verdicts) :
            Cardinality({f \in {"good", "bad", "wonky"} :
                In(input_data.verdicts[i].target, post_state.psi[f])}) = 1

(***************************************************************************)
(* C8  After a successful call no slot of rho holds a report judged by    *)
(* that call.                                                              *)
(***************************************************************************)
\* C8: a successful call leaves no slot holding a report it judged.
C8_JudgedSlotsCleared ==
    Succeeded =>
        \A t \in JudgedByCall, i \in 1..Len(post_state.rho) : post_state.rho[i] # t

(***************************************************************************)
(* C9  Every error code returned is one of the 17 codes of the taxonomy.  *)
(***************************************************************************)
ErrorTaxonomy ==
    {"verdicts_not_sorted_unique", "culprits_not_sorted_unique",
     "faults_not_sorted_unique", "offender_already_reported",
     "culprits_verdict_not_bad", "fault_verdict_wrong", "faults_verdict_not_good",
     "bad_guarantor_key", "bad_auditor_key", "bad_signature", "already_judged",
     "bad_judgement_age", "judgements_not_sorted_unique", "invalid_vote_index",
     "not_enough_faults", "not_enough_culprits", "bad_vote_split"}

\* C9: a failed call returns a code of the taxonomy.
C9_ErrorsInTaxonomy == Failed => output.err \in ErrorTaxonomy

(***************************************************************************)
(* C10  A batch whose verdict targets are not strictly ascending returns  *)
(* verdicts_not_sorted_unique and the pre-state, whatever else it holds.  *)
(***************************************************************************)
\* C10: verdict targets out of order or repeated give verdicts_not_sorted_unique
\* and the pre-state.
C10_SortRejection ==
    (Returned /\ ~StrictlyAscending(Targets(input_data)))
        => (output = Err("verdicts_not_sorted_unique") /\ post_state = pre_state)

\* A repeated target, culprits of which one has an unknown key, and a
\* pre-state with judged reports and offenders.
C10_Witness ==
    /\ Returned
    /\ IsSorted(Targets(input_data))
    /\ ~StrictlyAscending(Targets(input_data))
    /\ \E i \in 1..Len(input_data.culprits) :
          input_data.culprits[i].key \notin valid_keys(pre_state.kappa, pre_state.lambda)
    /\ Judged(pre_state.psi) # {}
    /\ pre_state.psi.offenders # <<>>

(***************************************************************************)
(* Vocabulary of the per-verdict properties.                               *)
(***************************************************************************)
Work0 ==
    [psi |-> pre_state.psi, rho |-> pre_state.rho,
     culprit_keys |-> <<>>, fault_keys |-> <<>>]

VerdictAt(i) == input_data.verdicts[i]

VerdictIndices == 1..Len(input_data.verdicts)

CulpritsOf(i) == Targeting(input_data.culprits, VerdictAt(i).target)

FaultsOf(i) == Targeting(input_data.faults, VerdictAt(i).target)

KeysOf(accusations) == {accusations[j].key : j \in 1..Len(accusations)}

\* The verdict loop of the last call over the verdicts that precede the i-th.
LoopBefore(i) ==
    ProcessVerdicts(SubSeq(input_data.verdicts, 1, i - 1), 0, Work0,
                    input_data.culprits, input_data.faults, pre_state, file_path)

\* The call gets as far as the vote validation of its i-th verdict, which passes.
PassesVoteValidation(i) ==
    /\ StrictlyAscending(Targets(input_data))
    /\ validate_culprits(input_data.culprits, pre_state.kappa, pre_state.lambda,
                         pre_state.psi, Targets(input_data), file_path) = NoError
    /\ validate_faults(input_data.faults, pre_state.kappa, pre_state.lambda,
                       pre_state.psi, Targets(input_data), file_path) = NoError
    /\ LoopBefore(i).err = NoError
    /\ ~AlreadyJudged(VerdictAt(i).target, LoopBefore(i).work.psi)
    /\ validate_votes(VerdictAt(i).votes, pre_state.kappa, pre_state.lambda,
                      VerdictAt(i).age, pre_state.tau, file_path) = NoError

PositiveOf(i) == Cardinality({j \in 1..Len(VerdictAt(i).votes) : VerdictAt(i).votes[j].vote})

TotalOf(i) == Len(VerdictAt(i).votes)

\* The target of the i-th verdict is in the set `field` of psi and in no other.
InOnly(psi, field, i) ==
    \A f \in {"good", "bad", "wonky"} : In(VerdictAt(i).target, psi[f]) <=> f = field

(***************************************************************************)
(* C11  Ambiguous split: a verdict that passes vote validation with       *)
(* positive > 0 and positive = floor(total/3) fails the call with         *)
(* bad_vote_split and the state unchanged, with or without accusations.   *)
(***************************************************************************)
AmbiguousSplit(i) ==
    /\ PositiveOf(i) > 0
    /\ PositiveOf(i) = TotalOf(i) \div 3
    /\ PassesVoteValidation(i)

\* C11: a verdict that passes vote validation with 0 < positive = floor(total/3)
\* gives bad_vote_split and the pre-state, whatever accusations target it.
C11_AmbiguousSplit ==
    Returned =>
        \A i \in VerdictIndices :
            AmbiguousSplit(i) => (output = Err("bad_vote_split") /\ post_state = pre_state)

\* An ambiguous split of a report that culprits and a fault target, on a
\* state that already holds judgements.
C11_Witness ==
    /\ Returned
    /\ Judged(pre_state.psi) # {}
    /\ \E i \in VerdictIndices :
          /\ AmbiguousSplit(i)
          /\ CulpritsOf(i) # <<>>
          /\ FaultsOf(i) # <<>>
          /\ TotalOf(i) > 3

(***************************************************************************)
(* C12  Wonky band: floor(total/3) < positive < floor(2*total/3)+1 and no *)
(* accusation targeting the report; a successful call puts the target in  *)
(* wonky only and takes no key for offenders_mark from it.                *)
(***************************************************************************)
WonkyBand(i) ==
    /\ TotalOf(i) \div 3 < PositiveOf(i)
    /\ PositiveOf(i) < ((2 * TotalOf(i)) \div 3) + 1
    /\ CulpritsOf(i) = <<>>
    /\ FaultsOf(i) = <<>>

\* The accusations of the batch that target a report other than that of verdict i.
AccusationsElsewhere(i) ==
    SelectSeq(input_data.culprits, LAMBDA a : a.target # VerdictAt(i).target)
    \o [j \in 1..Len(input_data.faults) |->
           Culprit(input_data.faults[j].key, input_data.faults[j].target)]

\* C12: after a successful call a wonky-band verdict without accusations has its
\* target in wonky only, and every key of offenders_mark comes from an
\* accusation against another report.
C12_WonkyBand ==
    Succeeded =>
        \A i \in VerdictIndices :
            WonkyBand(i) =>
                /\ InOnly(post_state.psi, "wonky", i)
                /\ Range(output.offenders_mark) \subseteq KeysOf(AccusationsElsewhere(i))
                /\ Len(input_data.verdicts) = 1 => output.offenders_mark = <<>>

\* A wonky verdict next to a verdict that does mark offenders.
C12_Witness ==
    /\ Succeeded
    /\ output.offenders_mark # <<>>
    /\ \E i \in VerdictIndices : WonkyBand(i) /\ ~In(VerdictAt(i).target, pre_state.psi.wonky)

(***************************************************************************)
(* C13  Supermajority good: positive >= floor(2*total/3)+1, at least one  *)
(* fault and no culprit targeting the report; a successful call puts the  *)
(* target in good only and every such fault's key in offenders_mark and   *)
(* in the offenders of the post-state.                                     *)
(***************************************************************************)
GoodBand(i) ==
    /\ PositiveOf(i) >= ((2 * TotalOf(i)) \div 3) + 1
    /\ Len(FaultsOf(i)) >= 1
    /\ CulpritsOf(i) = <<>>

\* C13: after a successful call a supermajority verdict with faults and no
\* culprits has its target in good only and its faults' keys marked as offenders.
C13_SupermajorityGood ==
    Succeeded =>
        \A i \in VerdictIndices :
            GoodBand(i) =>
                /\ InOnly(post_state.psi, "good", i)
                /\ KeysOf(FaultsOf(i)) \subseteq Range(output.offenders_mark)
                /\ KeysOf(FaultsOf(i)) \subseteq Range(post_state.psi.offenders)

\* Two faults against a good report, on a state that already holds a judgement.
C13_Witness ==
    /\ Succeeded
    /\ Judged(pre_state.psi) # {}
    /\ \E i \in VerdictIndices : GoodBand(i) /\ Len(FaultsOf(i)) = 2

(***************************************************************************)
(* C14  Unanimous bad: positive = 0, at least two culprits and no fault   *)
(* targeting the report; a successful call puts the target in bad only    *)
(* and every such culprit's key in offenders_mark and in the offenders of *)
(* the post-state.                                                         *)
(***************************************************************************)
BadBand(i) ==
    /\ PositiveOf(i) = 0
    /\ Len(CulpritsOf(i)) >= 2
    /\ FaultsOf(i) = <<>>

\* C14: after a successful call a verdict without positive votes, with two or
\* more culprits and no faults, has its target in bad only and its culprits'
\* keys marked as offenders.
C14_UnanimousBad ==
    Succeeded =>
        \A i \in VerdictIndices :
            BadBand(i) =>
                /\ InOnly(post_state.psi, "bad", i)
                /\ KeysOf(CulpritsOf(i)) \subseteq Range(output.offenders_mark)
                /\ KeysOf(CulpritsOf(i)) \subseteq Range(post_state.psi.offenders)

\* Three votes against a report with two culprits, after an earlier judgement.
C14_Witness ==
    /\ Succeeded
    /\ Judged(pre_state.psi) # {}
    /\ \E i \in VerdictIndices : BadBand(i) /\ TotalOf(i) = 3

(***************************************************************************)
(* C15  Frame: the state returned by a call has the tau, kappa and lambda *)
(* of the pre-state; only psi and rho can differ.                          *)
(***************************************************************************)
\* C15: every call returns tau, kappa and lambda as they were in the pre-state,
\* in a state with the same fields.
C15_Frame ==
    Returned =>
        /\ post_state.tau = pre_state.tau
        /\ post_state.kappa = pre_state.kappa
        /\ post_state.lambda = pre_state.lambda
        /\ DOMAIN post_state = DOMAIN pre_state

\* A successful call that changes both psi and rho.
C15_Witness ==
    /\ Succeeded
    /\ post_state.psi # pre_state.psi
    /\ post_state.rho # pre_state.rho
    /\ output.offenders_mark # <<>>

SameVerification(fp1, fp2) ==
    \A key \in AccusedKeys \cup Range(KappaInit), message \in Reports :
        verify_signature(key, message, fp1) = verify_signature(key, message, fp2)

\* C17: a call with the same batch and pre-state under any other file path with
\* the same verification answers returns the same result and post-state.
C17_PathIndependent ==
    Returned =>
        \A fp \in FilePaths :
            SameVerification(fp, file_path) =>
                process_disputes(input_data, pre_state, fp)
                    = [output |-> output, post_state |-> post_state]

(***************************************************************************)
(* Vocabulary of the accusation properties.                                *)
(***************************************************************************)
CulpritKeys == [j \in 1..Len(input_data.culprits) |-> input_data.culprits[j].key]

FaultKeys == [j \in 1..Len(input_data.faults) |-> input_data.faults[j].key]

\* The key is in kappa or in lambda.
IsValidatorKey(key) == In(key, pre_state.kappa) \/ In(key, pre_state.lambda)

\* The three sortedness checks of the pre-checker pass.
PassesSortedness ==
    /\ StrictlyAscending(Targets(input_data))
    /\ StrictlyAscending(CulpritKeys)
    /\ StrictlyAscending(FaultKeys)

\* The first rule a culprit violates, in the order of the rules.
CulpritRule(c) ==
    IF In(c.key, pre_state.psi.offenders) THEN "offender_already_reported"
    ELSE IF ~In(c.target, Targets(input_data)) THEN "culprits_verdict_not_bad"
    ELSE IF ~IsValidatorKey(c.key) THEN "bad_guarantor_key"
    ELSE IF ~verify_signature(c.key, c.target, file_path) THEN "bad_signature"
    ELSE NoError

\* The first rule a fault violates, in the order of the rules.
FaultRule(f) ==
    IF In(f.key, pre_state.psi.offenders) THEN "offender_already_reported"
    ELSE IF f.vote # FALSE THEN "fault_verdict_wrong"
    ELSE IF ~In(f.target, Targets(input_data)) THEN "fault_verdict_not_good"
    ELSE IF ~IsValidatorKey(f.key) THEN "bad_auditor_key"
    ELSE IF ~verify_signature(f.key, f.target, file_path) THEN "bad_signature"
    ELSE NoError

\* The i-th culprit is the first, in list order, that violates a rule.
FirstBadCulprit(i) ==
    /\ CulpritRule(input_data.culprits[i]) # NoError
    /\ \A j \in 1..(i - 1) : CulpritRule(input_data.culprits[j]) = NoError

\* The i-th fault is the first, in list order, that violates a rule.
FirstBadFault(i) ==
    /\ FaultRule(input_data.faults[i]) # NoError
    /\ \A j \in 1..(i - 1) : FaultRule(input_data.faults[j]) = NoError

AllCulpritsValid ==
    \A j \in 1..Len(input_data.culprits) : CulpritRule(input_data.culprits[j]) = NoError

(***************************************************************************)
(* C18  Pre-check ordering: with verdict targets and culprit keys         *)
(* strictly ascending and fault keys not, the call returns                *)
(* faults_not_sorted_unique whatever the culprits are.                    *)
(***************************************************************************)
\* C18: sorted verdicts and culprits with unsorted faults always give
\* faults_not_sorted_unique.
C18_SortednessBeforeAttestation ==
    (/\ Returned
     /\ StrictlyAscending(Targets(input_data))
     /\ StrictlyAscending(CulpritKeys)
     /\ ~StrictlyAscending(FaultKeys))
        => output = Err("faults_not_sorted_unique")

(***************************************************************************)
(* C19  Culprit validation: when the sortedness checks pass, the first    *)
(* culprit that violates a rule fails the call with its first violated    *)
(* rule; culprits without verdicts never succeed.                          *)
(***************************************************************************)
\* C19: in a batch that passes the sortedness checks the call fails with the
\* first violated rule of the first culprit that violates one, and a batch with
\* culprits and no verdicts fails.
C19_CulpritValidation ==
    Returned =>
        /\ PassesSortedness =>
              \A i \in 1..Len(input_data.culprits) :
                  FirstBadCulprit(i) =>
                      /\ output = Err(CulpritRule(input_data.culprits[i]))
                      /\ post_state = pre_state
        /\ (input_data.culprits # <<>> /\ input_data.verdicts = <<>>) => Failed

\* The second culprit is the first to violate a rule, and it violates more
\* than the one reported: its key is a known offender and no validator's.
C19_Witness ==
    /\ Returned
    /\ PassesSortedness
    /\ Len(input_data.culprits) = 2
    /\ FirstBadCulprit(2)
    /\ pre_state.psi.offenders # <<>>
    /\ input_data.culprits[2].target \notin Range(Targets(input_data))

(***************************************************************************)
(* C20  Fault validation: when the culprits are valid, the call fails     *)
(* with the first violated rule of the first fault that violates one.     *)
(***************************************************************************)
\* C20: with valid culprits the call fails with the first violated rule of the
\* first fault, in list order, that violates a rule.
C20_FaultValidation ==
    (Returned /\ PassesSortedness /\ AllCulpritsValid) =>
        \A i \in 1..Len(input_data.faults) :
            FirstBadFault(i) => output = Err(FaultRule(input_data.faults[i]))

(***************************************************************************)
(* C21  Validation is total before classification: an invalid culprit or  *)
(* fault decides the result of the call, whatever the verdicts would do,  *)
(* and culprit errors come before fault errors.                            *)
(***************************************************************************)
CulpritsInvalid ==
    \/ ~StrictlyAscending(CulpritKeys)
    \/ \E j \in 1..Len(input_data.culprits) : CulpritRule(input_data.culprits[j]) # NoError

FaultsInvalid ==
    \/ ~StrictlyAscending(FaultKeys)
    \/ \E j \in 1..Len(input_data.faults) : FaultRule(input_data.faults[j]) # NoError

\* The call returns the error of the culprit list.
ReturnsCulpritError ==
    IF ~StrictlyAscending(CulpritKeys) THEN output.err = "culprits_not_sorted_unique"
    ELSE \E i \in 1..Len(input_data.culprits) :
            FirstBadCulprit(i) /\ output.err = CulpritRule(input_data.culprits[i])

\* The call returns an error of the fault list.
ReturnsFaultError ==
    IF ~StrictlyAscending(FaultKeys) THEN output.err = "faults_not_sorted_unique"
    ELSE \E i \in 1..Len(input_data.faults) :
            /\ FaultRule(input_data.faults[i]) # NoError
            /\ output.err = FaultRule(input_data.faults[i])

\* Some verdict of the batch cannot be classified: its target is judged, its
\* age is off, or the accusations its band requires are missing.
SomeVerdictWouldFail ==
    \E i \in VerdictIndices :
        \/ VerdictAt(i).target \in Judged(pre_state.psi)
        \/ VerdictAt(i).age # pre_state.tau
        \/ PositiveOf(i) = 0 /\ Len(CulpritsOf(i)) < 2

\* C21: in a batch whose verdict targets are strictly ascending, an invalid
\* culprit list makes the call return the culprit error and, with valid
\* culprits, an invalid fault list makes it return a fault error, with the
\* state unchanged, whatever the verdicts are.
C21_ValidationBeforeClassification ==
    (Returned /\ StrictlyAscending(Targets(input_data))) =>
        /\ CulpritsInvalid =>
              (Failed /\ ReturnsCulpritError /\ post_state = pre_state)
        /\ (~CulpritsInvalid /\ FaultsInvalid) =>
              (Failed /\ ReturnsFaultError /\ post_state = pre_state)

\* Culprits and faults are both invalid and the only verdict is for a report
\* that is already judged and has too few culprits.
C21_Witness ==
    /\ Returned
    /\ StrictlyAscending(Targets(input_data))
    /\ CulpritsInvalid
    /\ FaultsInvalid
    /\ input_data.verdicts # <<>>
    /\ VerdictAt(1).target \in Judged(pre_state.psi)
    /\ SomeVerdictWouldFail

(***************************************************************************)
(* C22  Per-verdict check precedence: already_judged, bad_judgement_age,  *)
(* judgements_not_sorted_unique, then per vote invalid_vote_index and     *)
(* bad_signature; the first failing check of the first failing verdict is *)
(* returned, before any threshold classification of that verdict.         *)
(***************************************************************************)
VoteIndices(i) == [j \in 1..Len(VerdictAt(i).votes) |-> VerdictAt(i).votes[j].index]

\* The check a single vote fails: its index is too large, or its signature
\* does not verify.
VoteRule(vote) ==
    IF vote.index >= Len(pre_state.kappa) THEN "invalid_vote_index"
    ELSE IF ~verify_signature(KappaAt(pre_state.kappa, vote.index),
                              <<vote.vote, vote.index>>, file_path)
         THEN "bad_signature"
    ELSE NoError

BadVotes(i) == {j \in 1..Len(VerdictAt(i).votes) : VoteRule(VerdictAt(i).votes[j]) # NoError}

\* The first check the i-th verdict fails, in the order of the checks.
VerdictRule(i) ==
    IF VerdictAt(i).target \in Judged(pre_state.psi) THEN "already_judged"
    ELSE IF VerdictAt(i).age # pre_state.tau THEN "bad_judgement_age"
    ELSE IF ~StrictlyAscending(VoteIndices(i)) THEN "judgements_not_sorted_unique"
    ELSE IF BadVotes(i) # {} THEN VoteRule(VerdictAt(i).votes[Min(BadVotes(i))])
    ELSE NoError

\* The sortedness checks and the validation of culprits and faults pass.
PreChecksPass ==
    /\ StrictlyAscending(Targets(input_data))
    /\ ~CulpritsInvalid
    /\ ~FaultsInvalid

\* C22: when the verdicts before the i-th are all processed without error and
\* the i-th fails one of its checks, the call returns the first such check, in
\* the order already_judged, bad_judgement_age, judgements_not_sorted_unique,
\* then vote by vote invalid_vote_index and bad_signature, and the pre-state.
C22_VerdictCheckPrecedence ==
    (Returned /\ PreChecksPass) =>
        \A i \in VerdictIndices :
            (VerdictRule(i) # NoError /\ LoopBefore(i).err = NoError) =>
                (output = Err(VerdictRule(i)) /\ post_state = pre_state)

\* The first verdict is classified; the second has the wrong age and votes
\* out of order.
C22_Witness ==
    /\ Returned
    /\ PreChecksPass
    /\ Len(input_data.verdicts) = 2
    /\ LoopBefore(2).err = NoError
    /\ LoopBefore(2).work.psi # pre_state.psi
    /\ VerdictAt(2).age # pre_state.tau
    /\ ~StrictlyAscending(VoteIndices(2))
    /\ output.err = "bad_judgement_age"

(***************************************************************************)
(* C23  Vote index bounds: a vote whose index is outside 0..len(kappa)-1, *)
(* in a verdict with the right age and strictly ascending indices, fails  *)
(* the call with invalid_vote_index; such a vote is never counted.        *)
(***************************************************************************)
OutOfRange(vote) == vote.index < 0 \/ vote.index >= Len(pre_state.kappa)

HasOutOfRangeVote(i) ==
    \E j \in 1..Len(VerdictAt(i).votes) : OutOfRange(VerdictAt(i).votes[j])

\* C23: when the call reaches a verdict with an unjudged target, the right age,
\* strictly ascending vote indices and a vote index out of range, and signatures
\* verify, it returns invalid_vote_index and the pre-state; no successful call
\* has counted a vote with an index out of range.
C23_VoteIndexBounds ==
    Returned =>
        /\ \A i \in VerdictIndices :
              (/\ HasOutOfRangeVote(i)
               /\ VerdictAt(i).age = pre_state.tau
               /\ StrictlyAscending(VoteIndices(i))
               /\ VerdictAt(i).target \notin Judged(pre_state.psi)
               /\ ~HasBadSignatures(file_path)
               /\ PreChecksPass
               /\ LoopBefore(i).err = NoError)
                  => (output = Err("invalid_vote_index") /\ post_state = pre_state)
        /\ Succeeded => \A i \in VerdictIndices : ~HasOutOfRangeVote(i)

(***************************************************************************)
(* C24  Classification cross-checks: the accusations a band requires or   *)
(* forbids, and the error of each violation; the state is unchanged.      *)
(***************************************************************************)
\* The error the accusations of the i-th verdict call for in its band.
CrossCheckError(i) ==
    LET positive == PositiveOf(i)
        total == TotalOf(i)
    IN  IF positive >= ((2 * total) \div 3) + 1 THEN
            IF Len(FaultsOf(i)) = 0 THEN "not_enough_faults"
            ELSE IF Len(CulpritsOf(i)) > 0 THEN "culprits_verdict_not_bad"
            ELSE NoError
        ELSE IF positive = 0 THEN
            IF Len(CulpritsOf(i)) < 2 THEN "not_enough_culprits"
            ELSE IF Len(FaultsOf(i)) > 0 THEN "faults_verdict_not_good"
            ELSE NoError
        ELSE IF total \div 3 < positive THEN
            IF Len(CulpritsOf(i)) > 0 \/ Len(FaultsOf(i)) > 0 THEN "culprits_verdict_not_bad"
            ELSE NoError
        ELSE NoError

\* C24: a verdict that passes vote validation and whose accusations do not fit
\* its band fails the call with not_enough_faults or culprits_verdict_not_bad
\* (good), not_enough_culprits or faults_verdict_not_good (bad),
\* culprits_verdict_not_bad (wonky), and the pre-state is returned.
C24_CrossChecks ==
    Returned =>
        \A i \in VerdictIndices :
            (CrossCheckError(i) # NoError /\ PassesVoteValidation(i)) =>
                (output = Err(CrossCheckError(i)) /\ post_state = pre_state)

\* A supermajority verdict of three votes that a fault and a culprit target,
\* on a state that already holds judgements.
C24_Witness ==
    /\ Returned
    /\ Judged(pre_state.psi) # {}
    /\ \E i \in VerdictIndices :
          /\ TotalOf(i) = 3
          /\ PositiveOf(i) = 3
          /\ FaultsOf(i) # <<>>
          /\ CulpritsOf(i) # <<>>
          /\ PassesVoteValidation(i)
          /\ output.err = "culprits_verdict_not_bad"

(***************************************************************************)
(* C25  After a successful call every culprit's target is in bad, every   *)
(* fault's target is in good, and every culprit and fault key is in       *)
(* offenders_mark.                                                         *)
(***************************************************************************)
\* C25: a successful call leaves the target of every culprit in bad and of
\* every fault in good, and has the key of every culprit and fault in
\* offenders_mark.
C25_AccusationsConsistent ==
    Succeeded =>
        /\ \A j \in 1..Len(input_data.culprits) :
              /\ In(input_data.culprits[j].target, post_state.psi.bad)
              /\ In(input_data.culprits[j].key, output.offenders_mark)
        /\ \A j \in 1..Len(input_data.faults) :
              /\ In(input_data.faults[j].target, post_state.psi.good)
              /\ In(input_data.faults[j].key, output.offenders_mark)

(***************************************************************************)
(* C26  Judgement is final across calls threaded through the returned     *)
(* states.                                                                 *)
(***************************************************************************)
JudgementSets == {"good", "bad", "wonky"}

\* The report r stays in the set f and is in neither of the other two.
StaysIn(r, f) ==
    /\ In(r, post_state'.psi[f])
    /\ \A g \in JudgementSets \ {f} : ~In(r, post_state'.psi[g])

\* C26: over calls that each start from the state the previous one returned,
\* a report in good (bad, wonky) after a call is in the same set and in
\* neither of the other two after every later call, and a key in offenders
\* stays in offenders.
C26_JudgementFinal ==
    [][/\ \A f \in JudgementSets :
             \A r \in Range(post_state.psi[f]) : StaysIn(r, f)
       /\ Range(post_state.psi.offenders) \subseteq Range(post_state'.psi.offenders)]_vars

\* A later call judges another report while an earlier judgement and an
\* earlier offender are in the state it started from.
C26_Witness ==
    /\ Succeeded
    /\ Judged(pre_state.psi) # {}
    /\ pre_state.psi.offenders # <<>>
    /\ JudgedByCall # {}
    /\ Judged(pre_state.psi) \subseteq Judged(post_state.psi)

(***************************************************************************)
(* C27  The lenient variant against the strict one on the same call.      *)
(***************************************************************************)
\* What run_dispute_case.process_disputes returns on the input and the
\* pre-state of the last call.
Lenient == lenient_process_disputes(input_data, pre_state)

\* The batch with the age of every verdict set to the epoch before tau.
Aged(batch, tau) ==
    [batch EXCEPT !.verdicts = [i \in 1..Len(@) |-> [@[i] EXCEPT !.age = tau - 1]]]

\* No earlier verdict of the batch has the target of the i-th.
FirstForTarget(i) ==
    \A j \in 1..(i - 1) : VerdictAt(j).target # VerdictAt(i).target

\* The batch is one verdict without culprits and faults.
LoneVerdict ==
    /\ Len(input_data.verdicts) = 1
    /\ input_data.culprits = <<>>
    /\ input_data.faults = <<>>

\* C27: on the input of any call the lenient variant returns ok, returns what
\* it returns when every age is off, leaves a report already judged where it was,
\* and puts in wonky an unjudged target with 0 < positive = floor(total/3);
\* for a batch of one validated verdict with such a split and no accusations
\* the strict variant returns bad_vote_split with the state unchanged while
\* the lenient one returns ok with the target in wonky only.
C27_VariantDisagreement ==
    Returned =>
        LET lenient == Lenient
            psi == lenient.post_state.psi
        IN  /\ lenient.output.kind = "ok"
            /\ lenient_process_disputes(Aged(input_data, pre_state.tau), pre_state) = lenient
            /\ \A f \in JudgementSets : \A r \in Range(pre_state.psi[f]) :
                  \A g \in JudgementSets : In(r, psi[g]) <=> g = f
            /\ \A i \in VerdictIndices :
                  (/\ PositiveOf(i) > 0
                   /\ PositiveOf(i) = TotalOf(i) \div 3
                   /\ FirstForTarget(i)
                   /\ VerdictAt(i).target \notin Judged(pre_state.psi))
                  => InOnly(psi, "wonky", i)
            /\ (LoneVerdict /\ AmbiguousSplit(1))
                  => /\ output = Err("bad_vote_split")
                     /\ post_state = pre_state
                     /\ lenient.output = Ok(<<>>)
                     /\ InOnly(psi, "wonky", 1)
                     /\ ~In(VerdictAt(1).target, pre_state.psi.wonky)

\* One validated verdict with three votes, one of them positive, and no
\* accusations: the strict call fails, the lenient one judges the report wonky.
C27_Witness ==
    /\ Returned
    /\ LoneVerdict
    /\ TotalOf(1) = 3
    /\ PositiveOf(1) = 1
    /\ VerdictAt(1).age = pre_state.tau
    /\ output = Err("bad_vote_split")
    /\ post_state = pre_state
    /\ In(VerdictAt(1).target, Lenient.post_state.psi.wonky)
    /\ Judged(pre_state.psi) # {}

(***************************************************************************)
(* C28  Offenders are marked at most once.                                 *)
(***************************************************************************)
\* C28: in a successful call every key of offenders_mark is the key of a
\* culprit or fault of the batch, is in kappa or lambda, is not an offender of
\* the pre-state, and was in the offenders_mark of no earlier call of the
\* sequence.
C28_MarkedOnce ==
    Succeeded =>
        \A key \in Range(output.offenders_mark) :
            /\ key \in KeysOf(input_data.culprits) \cup KeysOf(input_data.faults)
            /\ key \in Range(pre_state.kappa) \cup Range(pre_state.lambda)
            /\ ~In(key, pre_state.psi.offenders)
            /\ key \notin marked

\* A call marks an offender after an earlier call marked another one.
C28_Witness ==
    /\ Succeeded
    /\ output.offenders_mark # <<>>
    /\ marked # {}
    /\ marked \subseteq Range(pre_state.psi.offenders)

(***************************************************************************)
(* C29  Availability frame of a successful call.                           *)
(***************************************************************************)
\* C29: a successful call keeps the number of slots of rho, fills no empty
\* slot, and changes only slots whose pending report was judged in the call,
\* which become empty.
C29_AvailabilityFrame ==
    Succeeded =>
        /\ Len(post_state.rho) = Len(pre_state.rho)
        /\ \A i \in 1..Len(pre_state.rho) :
              /\ pre_state.rho[i] = None => post_state.rho[i] = None
              /\ pre_state.rho[i] \notin JudgedByCall => post_state.rho[i] = pre_state.rho[i]
              /\ post_state.rho[i] # pre_state.rho[i] => post_state.rho[i] = None

(***************************************************************************)
(* C30  A verdict without votes.                                           *)
(***************************************************************************)
\* The call reaches its i-th verdict, which has no votes and passes validation.
ZeroVotes(i) == TotalOf(i) = 0 /\ PassesVoteValidation(i)

\* C30: a verdict without votes, of the current age and on an unjudged target,
\* is treated as bad: with two or more culprits and no fault targeting it the
\* verdict raises no error (the call succeeds when it is the last verdict, and
\* a successful call has the target in bad only); with fewer culprits the call
\* returns not_enough_culprits, and with a fault faults_verdict_not_good, both
\* with the pre-state.
C30_ZeroVoteVerdict ==
    Returned =>
        \A i \in VerdictIndices :
            ZeroVotes(i) =>
                IF Len(CulpritsOf(i)) < 2
                THEN output = Err("not_enough_culprits") /\ post_state = pre_state
                ELSE IF Len(FaultsOf(i)) > 0
                THEN output = Err("faults_verdict_not_good") /\ post_state = pre_state
                ELSE /\ i = Len(input_data.verdicts) => Succeeded
                     /\ Succeeded => InOnly(post_state.psi, "bad", i)
                     /\ Failed => /\ i < Len(input_data.verdicts)
                                  /\ post_state = pre_state
                                  /\ LoopBefore(i + 1).err = NoError

\* A verdict without votes and with two culprits is judged bad on a state that
\* already holds a judgement.
C30_Witness ==
    /\ Succeeded
    /\ Judged(pre_state.psi) # {}
    /\ \E i \in VerdictIndices :
          /\ ZeroVotes(i)
          /\ Len(CulpritsOf(i)) >= 2
          /\ FaultsOf(i) = <<>>
          /\ In(VerdictAt(i).target, post_state.psi.bad)
          /\ KeysOf(CulpritsOf(i)) \subseteq Range(output.offenders_mark)

====
